---------------------------- MODULE Spec2Model ----------------------------
(***************************************************************************)
(* A model of the localizer json_translator_rewrite.py: the token          *)
(* substitution engine (replace_placeholders_in_string), the recursive     *)
(* tree translator (translate_structure) over a heap of Python objects,    *)
(* the output-directory helper (_ensure_writable_dir) and the batch driver *)
(* (main).                                                                 *)
(*                                                                         *)
(* A Python str is a sequence of one-character strings.  A Python value is *)
(* a pair <<kind, payload>>: the immutable leaves "str", "num", "bool" and  *)
(* "null" are held inline, a dict or a list is a "ref" to a heap object.  *)
(* A heap object is <<"dict", <<<<key, value>>, ...>>>> (a dict keeps       *)
(* insertion order and has unique keys) or <<"list", <<value, ...>>>>.     *)
(***************************************************************************)
EXTENDS Integers, Sequences, FiniteSets, TLC

VARIABLES
    pc,              \* position of the harness or of main()
    s,               \* SpecString: the string argument
    tmap,            \* the Locale Map of the call (translations_for_locale)
    translate_keys,  \* the translate_keys argument / args.translate_keys
    result,          \* the value returned by the function under test
    heap,            \* the Python objects allocated so far
    data,            \* the source Document Tree (a value)
    outs,            \* SpecAlias: the trees returned so far
    snaps,           \* SpecAlias: what each returned tree is expected to hold
    fs,              \* main: the file system, path -> entry
    args,            \* main: the parsed command line
    translations,    \* main: the Translation Table, in items() order
    dirs,            \* main: outdir and minout as returned by _ensure_writable_dir
    idx,             \* main: how many locales the loop has completed
    count,           \* main: the counter of line 128
    stdout,          \* main: what has been printed
    hist             \* observation only: the tree given to the call; what main did

vars == <<pc, s, tmap, translate_keys, result, heap, data, outs, snaps,
          fs, args, translations, dirs, idx, count, stdout, hist>>

---------------------------------------------------------------------------
(* Bounds *)

MaxLen == 3
MaxNodes == 3
MaxLocales == 2

---------------------------------------------------------------------------
(* Strings *)

Letters ==
    {"a","b","c","d","e","f","g","h","i","j","k","l","m",
     "n","o","p","q","r","s","t","u","v","w","x","y","z",
     "A","B","C","D","E","F","G","H","I","J","K","L","M",
     "N","O","P","Q","R","S","T","U","V","W","X","Y","Z"}

Digits == {"0","1","2","3","4","5","6","7","8","9"}

\* The character class [A-Za-z0-9_\-] of token_re.
TokenChar(c) == c \in Letters \cup Digits \cup {"_", "-"}

InMap(M, k) == k \in DOMAIN M

\* dict.get(key, default)
DictGet(M, k, default) == IF k \in DOMAIN M THEN M[k] ELSE default

\* m.end() of the match of [A-Za-z0-9_\-]+ that starts at i: the greedy
\* quantifier takes token characters for as long as there are any.
RECURSIVE MatchEnd(_, _)
MatchEnd(str, i) ==
    IF i + 1 <= Len(str) /\ TokenChar(str[i + 1]) THEN MatchEnd(str, i + 1) ELSE i

\* ReSub with an unmatched token replaced by nothing instead of itself.
RECURSIVE ReSubDrop(_, _, _)
ReSubDrop(str, M, i) ==
    IF i > Len(str) THEN <<>>
    ELSE IF TokenChar(str[i])
         THEN LET e == MatchEnd(str, i)
                  m == SubSeq(str, i, e)
              IN  (IF InMap(M, m) THEN M[m] ELSE <<>>) \o ReSubDrop(str, M, e + 1)
         ELSE <<str[i]>> \o ReSubDrop(str, M, i + 1)

\* token_re.sub(repl, s) from position i on: the leftmost match is replaced by
\* what repl returns for it, the scan resumes after the match (the replacement
\* is not scanned again), and an unmatched character is copied.
RECURSIVE ReSub(_, _, _)
ReSub(str, M, i) ==
    IF i > Len(str) THEN <<>>
    ELSE IF TokenChar(str[i])
         THEN LET e == MatchEnd(str, i)
                  m == SubSeq(str, i, e)
              IN  DictGet(M, m, m) \o ReSub(str, M, e + 1)
         ELSE <<str[i]>> \o ReSub(str, M, i + 1)

\* replace_placeholders_in_string without the whole-string test of lines 43-44.
replace_inline_only(str, M) == ReSub(str, M, 1)

\* replace_placeholders_in_string(s, translations_for_locale) for a str s.
replace_placeholders_in_string(str, M) ==
    IF InMap(M, str) THEN M[str] ELSE ReSub(str, M, 1)

---------------------------------------------------------------------------
(* SpecString: replace_placeholders_in_string on bounded inputs *)

Alphabet == {"a", "B", "7", "-", " ", ","}

RECURSIVE StringsUpTo(_)
StringsUpTo(n) ==
    IF n = 0 THEN {<<>>}
    ELSE LET shorter == StringsUpTo(n - 1)
         IN  shorter \cup {Append(x, c) : x \in {y \in shorter : Len(y) = n - 1}, c \in Alphabet}

\* Locale Maps of the string harness: tokens, a key holding a space, values
\* that are again keys, an empty value.
StringMaps ==
    { <<>>,
      (<<"a">> :> <<"X">>),
      (<<"a">> :> <<"B">>) @@ (<<"B">> :> <<"a">>),
      (<<"a">> :> <<"X">>) @@ (<<"a", " ", "a">> :> <<"Y", "Y">>),
      (<<"a", "-", "7">> :> <<>>) @@ (<<"7">> :> <<"a", " ", "7">>),
      (<<"a", "B">> :> <<"7", ",">>) @@ (<<"B">> :> <<"X">>) @@ (<<",">> :> <<"Z">>) }

NoResult == <<"none", 0>>

DriverIdle ==
    /\ fs = <<>> /\ args = <<>> /\ translations = <<>> /\ dirs = <<>>
    /\ idx = 0 /\ count = 0 /\ stdout = <<>> /\ hist = <<>>

DriverUnchanged == UNCHANGED <<fs, args, translations, dirs, idx, count, stdout, hist>>

InitString ==
    /\ pc = "call"
    /\ s \in StringsUpTo(MaxLen)
    /\ tmap \in StringMaps
    /\ translate_keys = FALSE
    /\ result = <<>>
    /\ heap = <<>> /\ data = NoResult /\ outs = <<>> /\ snaps = <<>>
    /\ DriverIdle

CallReplace ==
    /\ pc = "call"
    /\ result' = replace_placeholders_in_string(s, tmap)
    /\ pc' = "returned"
    /\ UNCHANGED <<s, tmap, translate_keys, heap, data, outs, snaps>>
    /\ DriverUnchanged

NextString == CallReplace

SpecString == InitString /\ [][NextString]_vars


\* A lexeme character: one of [A-Za-z0-9_-].
LexemeChar(c) == c = "_" \/ c = "-" \/ c \in Letters \/ c \in Digits

\* The positions where a block of s starts (a block is a maximal run of lexeme
\* characters or a maximal run of other characters), and one past the end.
BlockStarts(str) ==
    {i \in 1..(Len(str) + 1) :
        \/ i = 1
        \/ i = Len(str) + 1
        \/ LexemeChar(str[i - 1]) # LexemeChar(str[i])}

BlockEnd(str, i) ==
    CHOOSE e \in BlockStarts(str) :
        e > i /\ \A x \in BlockStarts(str) : x > i => e <= x

RECURSIVE BlockImages(_, _, _)
BlockImages(str, M, i) ==
    IF i > Len(str) THEN <<>>
    ELSE LET e == BlockEnd(str, i)
             block == SubSeq(str, i, e - 1)
         IN  (IF LexemeChar(str[i]) /\ block \in DOMAIN M THEN M[block] ELSE block)
                \o BlockImages(str, M, e)

\* C1: for a string s that is not itself a key of the Locale Map, the result is
\* s with every maximal run of characters of [A-Za-z0-9_-] replaced by the
\* map's text for that run when the run is a key and kept otherwise, and with
\* every other character kept verbatim in place.
C1_LexemeSubstitution ==
    (pc = "returned" /\ s \notin DOMAIN tmap) => result = BlockImages(s, tmap, 1)

C1_Witness ==
    /\ pc = "returned"
    /\ s = <<"7", " ", "a">>
    /\ tmap = (<<"a">> :> <<"X">>)
    /\ result = <<"7", " ", "X">>

\* C2: a string that is exactly a key of the Locale Map is replaced by the
\* map's text for it, whatever lexemes it contains.
C2_WholeStringPriority ==
    (pc = "returned" /\ s \in DOMAIN tmap) => result = tmap[s]

C2_Witness ==
    /\ pc = "returned"
    /\ s = <<"a", " ", "a">>
    /\ <<"a">> \in DOMAIN tmap
    /\ s \in DOMAIN tmap
    /\ result = <<"Y", "Y">>

---------------------------------------------------------------------------
(* Python values and the heap *)

Kind(v) == v[1]
Val(v) == v[2]

Str(x) == <<"str", x>>
Num(n) == <<"num", n>>
Bool(b) == <<"bool", b>>
Null == <<"null", 0>>
Ref(a) == <<"ref", a>>
ListTree(ts) == <<"list", ts>>
DictTree(es) == <<"dict", es>>

IsRef(v) == Kind(v) = "ref"

\* DictSet with a new key put first instead of last.
DictSetFront(items, k, v) ==
    IF \E i \in 1..Len(items) : items[i][1] = k
    THEN [i \in 1..Len(items) |-> IF items[i][1] = k THEN <<k, v>> ELSE items[i]]
    ELSE <<<<k, v>>>> \o items

\* d[k] = v on the items of a dict: an existing key keeps its position and
\* takes the new value, a new key goes to the end.
DictSet(items, k, v) ==
    IF \E i \in 1..Len(items) : items[i][1] = k
    THEN [i \in 1..Len(items) |-> IF items[i][1] = k THEN <<k, v>> ELSE items[i]]
    ELSE Append(items, <<k, v>>)

\* The object that json.load builds for a JSON text holding the tree t:
\* fresh dict and list objects, leaves inline.
RECURSIVE Alloc(_, _)
RECURSIVE AllocSeq(_, _)
AllocSeq(h, ts) ==
    IF ts = <<>> THEN [heap |-> h, val |-> <<>>]
    ELSE LET first == Alloc(h, Head(ts))
             rest == AllocSeq(first.heap, Tail(ts))
         IN  [heap |-> rest.heap, val |-> <<first.val>> \o rest.val]

Alloc(h, t) ==
    IF Kind(t) = "list"
    THEN LET r == AllocSeq(h, Val(t))
         IN  [heap |-> Append(r.heap, <<"list", r.val>>),
              val |-> Ref(Len(r.heap) + 1)]
    ELSE IF Kind(t) = "dict"
    THEN LET es == Val(t)
             r == AllocSeq(h, [i \in 1..Len(es) |-> es[i][2]])
         IN  [heap |-> Append(r.heap,
                          <<"dict", [i \in 1..Len(es) |-> <<es[i][1], r.val[i]>>]>>),
              val |-> Ref(Len(r.heap) + 1)]
    ELSE [heap |-> h, val |-> t]

\* The tree a value stands for (what json.dump would serialize).
RECURSIVE Deref(_, _)
Deref(h, v) ==
    IF ~IsRef(v) THEN v
    ELSE LET o == h[Val(v)]
             xs == Val(o)
         IN  IF Kind(o) = "list"
             THEN ListTree([i \in 1..Len(xs) |-> Deref(h, xs[i])])
             ELSE DictTree([i \in 1..Len(xs) |-> <<xs[i][1], Deref(h, xs[i][2])>>])

\* The addresses of the mutable objects reachable from a value.
RECURSIVE Reach(_, _)
Reach(h, v) ==
    IF ~IsRef(v) THEN {}
    ELSE LET o == h[Val(v)]
             xs == Val(o)
         IN  {Val(v)} \cup
             UNION {Reach(h, IF Kind(o) = "list" THEN xs[i] ELSE xs[i][2]) :
                        i \in 1..Len(xs)}

\* copy.deepcopy(obj): fresh dicts and lists all the way down.
RECURSIVE deepcopy(_, _)
RECURSIVE deepcopy_seq(_, _)
deepcopy_seq(h, vs) ==
    IF vs = <<>> THEN [heap |-> h, val |-> <<>>]
    ELSE LET first == deepcopy(h, Head(vs))
             rest == deepcopy_seq(first.heap, Tail(vs))
         IN  [heap |-> rest.heap, val |-> <<first.val>> \o rest.val]

deepcopy(h, obj) ==
    IF ~IsRef(obj) THEN [heap |-> h, val |-> obj]
    ELSE LET o == h[Val(obj)]
             xs == Val(o)
         IN  IF Kind(o) = "list"
             THEN LET r == deepcopy_seq(h, xs)
                  IN  [heap |-> Append(r.heap, <<"list", r.val>>),
                       val |-> Ref(Len(r.heap) + 1)]
             ELSE LET r == deepcopy_seq(h, [i \in 1..Len(xs) |-> xs[i][2]])
                  IN  [heap |-> Append(r.heap,
                                   <<"dict", [i \in 1..Len(xs) |-> <<xs[i][1], r.val[i]>>]>>),
                       val |-> Ref(Len(r.heap) + 1)]

---------------------------------------------------------------------------
(* translate_structure *)

FieldCookieSubgroup == <<"C","o","o","k","i","e"," ","s","u","b","g","r","o","u","p">>
FieldCookies == <<"C","o","o","k","i","e","s">>
FieldCookiesUsed == <<"C","o","o","k","i","e","s"," ","u","s","e","d">>
FieldLifespan == <<"L","i","f","e","s","p","a","n">>
TokenCookeiSubgroup ==
    <<"C","o","o","k","i","e","P","o","l","i","c","y","T","a","b","l","e",
      "C","o","o","k","e","i","S","u","b","g","r","o","u","p">>
TokenCookies ==
    <<"C","o","o","k","i","e","P","o","l","i","c","y","T","a","b","l","e",
      "C","o","o","k","i","e","s">>
TokenCookiesUsed ==
    <<"C","o","o","k","i","e","P","o","l","i","c","y","T","a","b","l","e",
      "C","o","o","k","i","e","s","U","s","e","d">>
TokenLifespan ==
    <<"C","o","o","k","i","e","P","o","l","i","c","y","T","a","b","l","e",
      "L","i","f","e","s","p","a","n">>

FIELD_KEY_TO_TRANSLATION_KEY ==
    (FieldCookieSubgroup :> TokenCookeiSubgroup) @@ (FieldCookies :> TokenCookies)
        @@ (FieldCookiesUsed :> TokenCookiesUsed) @@ (FieldLifespan :> TokenLifespan)

\* new_key without the test of the translate_keys flag.
new_key_always(k, M, tk) ==
    IF k \in DOMAIN FIELD_KEY_TO_TRANSLATION_KEY
    THEN DictGet(M, FIELD_KEY_TO_TRANSLATION_KEY[k], k)
    ELSE k

\* Lines 53-56: the key under which an entry with key k is stored.
new_key(k, M, tk) ==
    IF tk /\ k \in DOMAIN FIELD_KEY_TO_TRANSLATION_KEY
    THEN DictGet(M, FIELD_KEY_TO_TRANSLATION_KEY[k], k)
    ELSE k

RECURSIVE translate_structure(_, _, _, _)
RECURSIVE translate_items(_, _, _, _, _)
RECURSIVE translate_elements(_, _, _, _)

\* Lines 52-57: the loop over obj.items(), filling the dict at address a.
translate_items(h, a, items, M, tk) ==
    IF items = <<>> THEN h
    ELSE LET k == Head(items)[1]
             r == translate_structure(h, Head(items)[2], M, tk)
             stored == [r.heap EXCEPT ![a][2] = DictSet(@, new_key(k, M, tk), r.val)]
         IN  translate_items(stored, a, Tail(items), M, tk)

\* Line 60: the elements of the list comprehension, left to right.
translate_elements(h, elems, M, tk) ==
    IF elems = <<>> THEN [heap |-> h, val |-> <<>>]
    ELSE LET first == translate_structure(h, Head(elems), M, tk)
             rest == translate_elements(first.heap, Tail(elems), M, tk)
         IN  [heap |-> rest.heap, val |-> <<first.val>> \o rest.val]

\* translate_list returning the list it was given instead of a new one.
translate_list_alias(h, obj, M, tk) == [heap |-> h, val |-> obj]

\* Lines 59-60: a list yields a new list of the translated elements.
translate_list(h, obj, M, tk) ==
    LET r == translate_elements(h, Val(h[Val(obj)]), M, tk)
    IN  [heap |-> Append(r.heap, <<"list", r.val>>),
         val |-> Ref(Len(r.heap) + 1)]

\* Lines 50-58: a dict yields a new dict, filled entry by entry.
translate_dict(h, obj, M, tk) ==
    LET a == Len(h) + 1
        h1 == Append(h, <<"dict", <<>>>>)
    IN  [heap |-> translate_items(h1, a, Val(h[Val(obj)]), M, tk), val |-> Ref(a)]

\* translate_structure(obj, translations_for_locale, translate_keys): the heap
\* after the call and the value returned.
translate_structure(h, obj, M, tk) ==
    IF IsRef(obj) /\ Kind(h[Val(obj)]) = "dict" THEN translate_dict(h, obj, M, tk)
    ELSE IF IsRef(obj) /\ Kind(h[Val(obj)]) = "list" THEN translate_list(h, obj, M, tk)
    ELSE IF Kind(obj) = "str"
         THEN [heap |-> h, val |-> Str(replace_placeholders_in_string(Val(obj), M))]
    ELSE [heap |-> h, val |-> obj]

---------------------------------------------------------------------------
(* SpecTree: translate_structure on bounded Document Trees *)

KeyId == <<"i","d">>
KeyPool == {FieldLifespan, FieldCookies, KeyId}

LeafPool == {Str(<<"a">>), Str(<<"7", " ", "a">>), Num(7), Bool(TRUE), Null}

KeySeqs(n) ==
    {ks \in [1..n -> KeyPool] : \A i, j \in 1..n : ks[i] = ks[j] => i = j}

\* The trees of exactly n nodes, and the sequences of trees of m nodes in all.
RECURSIVE TreesOfSize(_)
RECURSIVE Forests(_)
Forests(m) ==
    IF m = 0 THEN {<<>>}
    ELSE UNION {{<<t>> \o f : t \in TreesOfSize(j), f \in Forests(m - j)} : j \in 1..m}

TreesOfSize(n) ==
    (IF n = 1 THEN LeafPool ELSE {})
        \cup {ListTree(f) : f \in Forests(n - 1)}
        \cup UNION {{DictTree([i \in 1..Len(f) |-> <<ks[i], f[i]>>]) : ks \in KeySeqs(Len(f))} :
                        f \in Forests(n - 1)}

TreesUpTo(n) == UNION {TreesOfSize(j) : j \in 1..n}

XX == <<"X">>
Dauer == <<"D","a","u","e","r">>

\* Locale Maps of the tree harness: none, one header, two headers with one
\* label, a header labelled like another field, a leaf token, both.
TreeMaps ==
    { <<>>,
      (TokenLifespan :> Dauer),
      (TokenLifespan :> XX) @@ (TokenCookies :> XX),
      (TokenLifespan :> FieldCookies),
      (<<"a">> :> XX),
      (<<"a">> :> XX) @@ (TokenCookies :> Dauer) }

InitTree ==
    /\ pc = "call"
    /\ s = <<>>
    /\ tmap \in TreeMaps
    /\ translate_keys \in BOOLEAN
    /\ result = NoResult
    /\ \E t \in TreesUpTo(MaxNodes) :
          LET r == Alloc(<<>>, t)
          IN  heap = r.heap /\ data = r.val /\ hist = t
    /\ outs = <<>> /\ snaps = <<>>
    /\ fs = <<>> /\ args = <<>> /\ translations = <<>> /\ dirs = <<>>
    /\ idx = 0 /\ count = 0 /\ stdout = <<>>

CallTranslate ==
    /\ pc = "call"
    /\ LET r == translate_structure(heap, data, tmap, translate_keys)
       IN  heap' = r.heap /\ result' = r.val
    /\ pc' = "returned"
    /\ UNCHANGED <<s, tmap, translate_keys, data, outs, snaps>>
    /\ DriverUnchanged

NextTree == CallTranslate

SpecTree == InitTree /\ [][NextTree]_vars

\* The tree passed to the call and the tree returned.
InputTree == hist
OutputTree == Deref(heap, result)

\* The key an entry with key k is to appear under when keys are renamed.
ExpectedKey(k, M) ==
    IF k = FieldCookieSubgroup /\ TokenCookeiSubgroup \in DOMAIN M THEN M[TokenCookeiSubgroup]
    ELSE IF k = FieldCookies /\ TokenCookies \in DOMAIN M THEN M[TokenCookies]
    ELSE IF k = FieldCookiesUsed /\ TokenCookiesUsed \in DOMAIN M THEN M[TokenCookiesUsed]
    ELSE IF k = FieldLifespan /\ TokenLifespan \in DOMAIN M THEN M[TokenLifespan]
    ELSE k

RECURSIVE EntriesKept(_, _, _)
EntriesKept(tin, tout, M) ==
    IF Kind(tin) = "dict"
    THEN /\ Kind(tout) = "dict"
         /\ Len(Val(tout)) = Len(Val(tin))
         /\ \A i \in 1..Len(Val(tin)) :
               /\ Val(tout)[i][1] = ExpectedKey(Val(tin)[i][1], M)
               /\ EntriesKept(Val(tin)[i][2], Val(tout)[i][2], M)
    ELSE IF Kind(tin) = "list"
    THEN /\ Kind(tout) = "list"
         /\ Len(Val(tout)) = Len(Val(tin))
         /\ \A i \in 1..Len(Val(tin)) : EntriesKept(Val(tin)[i], Val(tout)[i], M)
    ELSE Kind(tout) = Kind(tin)

\* C3: with key renaming enabled no entry of a mapping node is dropped: entry i
\* of the input yields entry i of the output, under the Locale Map's label for
\* the key's token when the key has a token and the token has a label, and
\* under the key itself otherwise, so both mappings have as many entries.
C3_RenamingKeepsEveryEntry ==
    (pc = "returned" /\ translate_keys) => EntriesKept(InputTree, OutputTree, tmap)

RECURSIVE SameShape(_, _)
SameShape(tin, tout) ==
    IF Kind(tin) = "dict"
    THEN /\ Kind(tout) = "dict"
         /\ Len(Val(tout)) = Len(Val(tin))
         /\ \A i \in 1..Len(Val(tin)) :
               /\ Val(tout)[i][1] = Val(tin)[i][1]
               /\ SameShape(Val(tin)[i][2], Val(tout)[i][2])
    ELSE IF Kind(tin) = "list"
    THEN /\ Kind(tout) = "list"
         /\ Len(Val(tout)) = Len(Val(tin))
         /\ \A i \in 1..Len(Val(tin)) : SameShape(Val(tin)[i], Val(tout)[i])
    ELSE IF Kind(tin) = "str" THEN Kind(tout) = "str"
    ELSE tout = tin

\* C4: with key renaming disabled the output has the shape of the input: each
\* mapping node has the input's keys in the input's order, each sequence node
\* the input's length and order, each number, boolean and null leaf is unchanged, and
\* a string leaf is still a string.
C4_StructuralInvariance ==
    (pc = "returned" /\ ~translate_keys) => SameShape(InputTree, OutputTree)

C4_Witness ==
    /\ pc = "returned"
    /\ ~translate_keys
    /\ TokenCookies \in DOMAIN tmap
    /\ InputTree = DictTree(<< <<FieldCookies, ListTree(<<Str(<<"a">>)>>)>> >>)
    /\ OutputTree = DictTree(<< <<FieldCookies, ListTree(<<Str(XX)>>)>> >>)

\* The lexemes of a string: its maximal runs of lexeme characters.
RunsOf(str) ==
    {SubSeq(str, i, j) : <<i, j>> \in
        {p \in (1..Len(str)) \X (1..Len(str)) :
            /\ p[1] <= p[2]
            /\ \A x \in p[1]..p[2] : LexemeChar(str[x])
            /\ (p[1] = 1 \/ ~LexemeChar(str[p[1] - 1]))
            /\ (p[2] = Len(str) \/ ~LexemeChar(str[p[2] + 1]))}}

RECURSIVE StringLeaves(_)
StringLeaves(t) ==
    IF Kind(t) = "dict" THEN UNION {StringLeaves(Val(t)[i][2]) : i \in 1..Len(Val(t))}
    ELSE IF Kind(t) = "list" THEN UNION {StringLeaves(Val(t)[i]) : i \in 1..Len(Val(t))}
    ELSE IF Kind(t) = "str" THEN {Val(t)}
    ELSE {}

RECURSIVE KeysOf(_)
KeysOf(t) ==
    IF Kind(t) = "dict"
    THEN {Val(t)[i][1] : i \in 1..Len(Val(t))}
            \cup UNION {KeysOf(Val(t)[i][2]) : i \in 1..Len(Val(t))}
    ELSE IF Kind(t) = "list" THEN UNION {KeysOf(Val(t)[i]) : i \in 1..Len(Val(t))}
    ELSE {}

TokenFree(t, M) ==
    \A x \in StringLeaves(t) : x \notin DOMAIN M /\ RunsOf(x) \cap DOMAIN M = {}

\* No key of the tree is a field whose token the Locale Map holds.
NoRenamedKey(t, M) == \A k \in KeysOf(t) : ExpectedKey(k, M) = k

\* C10 as stated: a tree none of whose string leaves is a key of the Locale Map
\* or holds a lexeme that is one comes back deep-equal, whatever the
\* key-renaming flag.
C10_IdentityAnyFlag ==
    (pc = "returned" /\ TokenFree(InputTree, tmap)) => OutputTree = InputTree

\* C10 as amended: such a tree comes back deep-equal provided key renaming is
\* disabled or renames no key of the tree.
C10_IdentityOnTokenFree ==
    (pc = "returned" /\ TokenFree(InputTree, tmap)
        /\ (~translate_keys \/ NoRenamedKey(InputTree, tmap)))
    => OutputTree = InputTree

C10_Witness ==
    /\ pc = "returned"
    /\ translate_keys
    /\ tmap = (TokenLifespan :> Dauer)
    /\ InputTree = DictTree(<< <<FieldCookies, Str(<<"7", " ", "a">>)>>, <<KeyId, Num(7)>> >>)
    /\ TokenFree(InputTree, tmap)
    /\ OutputTree = InputTree

---------------------------------------------------------------------------
(* SpecAlias: one source tree translated for two locales by a caller that    *)
(* then modifies a tree it was given back                                    *)

AliasMaps == {(<<"a">> :> XX), (TokenLifespan :> Dauer)}

KeyZ == <<"z">>

InitAlias ==
    /\ pc = "calls"
    /\ s = <<>>
    /\ tmap = <<>>
    /\ translate_keys \in BOOLEAN
    /\ result = NoResult
    /\ \E t \in TreesUpTo(MaxNodes) :
          LET r == Alloc(<<>>, t)
          IN  heap = r.heap /\ data = r.val /\ hist = t
    /\ outs = <<>> /\ snaps = <<>>
    /\ fs = <<>> /\ args = <<>> /\ translations = <<>> /\ dirs = <<>>
    /\ idx = 0 /\ count = 0 /\ stdout = <<>>

\* translated = translate_structure(data, tmap, translate_keys), for the
\* first and for the second locale.
AliasTranslate ==
    /\ pc \in {"calls", "mutated"}
    /\ Len(outs) < 2
    /\ \E M \in AliasMaps :
          LET r == translate_structure(heap, data, M, translate_keys)
          IN  /\ heap' = r.heap
              /\ result' = r.val
              /\ outs' = Append(outs, r.val)
              /\ snaps' = Append(snaps, Deref(r.heap, r.val))
              /\ tmap' = M
    /\ UNCHANGED <<pc, s, translate_keys, data, hist>>
    /\ UNCHANGED <<fs, args, translations, dirs, idx, count, stdout>>

\* The caller modifies one mutable node of a returned tree in place: clear(),
\* or list.append("z") / d["z"] = "z".
AliasMutate ==
    /\ pc = "calls"
    /\ \E j \in 1..Len(outs) : \E a \in Reach(heap, outs[j]) : \E clear \in BOOLEAN :
          /\ heap' = [heap EXCEPT ![a][2] =
                         IF clear THEN <<>>
                         ELSE IF Kind(heap[a]) = "list" THEN Append(@, Str(KeyZ))
                         ELSE DictSet(@, KeyZ, Str(KeyZ))]
          /\ heap' # heap
          /\ snaps' = [snaps EXCEPT ![j] = Deref(heap', outs[j])]
    /\ pc' = "mutated"
    /\ UNCHANGED <<s, tmap, translate_keys, result, data, outs, hist>>
    /\ UNCHANGED <<fs, args, translations, dirs, idx, count, stdout>>

NextAlias == AliasTranslate \/ AliasMutate

SpecAlias == InitAlias /\ [][NextAlias]_vars

\* C9: translate_structure leaves its input as it was and returns a tree that
\* shares no dict or list with the input; so the source tree keeps its initial
\* value over any sequence of translations, and modifying one returned tree
\* changes neither the source nor another returned tree.
C9_NoMutationNoSharing ==
    /\ Deref(heap, data) = hist
    /\ \A j \in 1..Len(outs) :
          /\ Reach(heap, outs[j]) \cap Reach(heap, data) = {}
          /\ Deref(heap, outs[j]) = snaps[j]
          /\ \A i \in 1..Len(outs) :
                i # j => Reach(heap, outs[i]) \cap Reach(heap, outs[j]) = {}

C9_Witness ==
    /\ pc = "mutated"
    /\ Len(outs) = 2
    /\ Reach(heap, data) # {}
    /\ Deref(heap, outs[1]) # Deref(heap, outs[2])
    /\ Deref(heap, data) = hist

---------------------------------------------------------------------------
(* The file system and os.path *)

Dir == <<"dir">>
File(content) == <<"file", content>>
IsFile(e) == e[1] = "file"

\* What a file holds: a JSON text (the tree it parses to), a translated
\* document as json.dump wrote it (indent=2, or the compact separators), a
\* write that stopped half way, or other text.
JsonText(t) == <<"json", t>>
PrettyText(t) == <<"indent2", t>>
MinText(t) == <<"compact", t>>
PartialText == <<"partial">>
OtherText == <<"other">>

FsPut(f, p, e) == (p :> e) @@ f
FsRemove(f, p) == [q \in DOMAIN f \ {p} |-> f[q]]

\* p.rfind("/") + 1
AfterLastSlash(p) ==
    IF \E i \in 1..Len(p) : p[i] = "/"
    THEN CHOOSE i \in 1..Len(p) : p[i] = "/" /\ \A j \in (i + 1)..Len(p) : p[j] # "/"
    ELSE 0

RECURSIVE rstrip_slash(_)
rstrip_slash(p) ==
    IF p # <<>> /\ p[Len(p)] = "/" THEN rstrip_slash(SubSeq(p, 1, Len(p) - 1)) ELSE p

\* os.path.basename, os.path.dirname and os.path.join (posixpath).
os_path_basename(p) == SubSeq(p, AfterLastSlash(p) + 1, Len(p))

os_path_dirname(p) ==
    LET head == SubSeq(p, 1, AfterLastSlash(p))
    IN  IF head # <<>> /\ (\E i \in 1..Len(head) : head[i] # "/")
        THEN rstrip_slash(head)
        ELSE head

os_path_join(a, b) ==
    IF b # <<>> /\ b[1] = "/" THEN b
    ELSE IF a = <<>> \/ a[Len(a)] = "/" THEN a \o b
    ELSE a \o <<"/">> \o b

\* load_json(path): the parsed JSON value, or an exception when the file is
\* missing, is a directory or is no JSON text.
load_json(fsys, path) ==
    IF path \in DOMAIN fsys /\ IsFile(fsys[path]) /\ fsys[path][2][1] = "json"
    THEN [raised |-> FALSE, value |-> fsys[path][2][2]]
    ELSE [raised |-> TRUE, value |-> Null]

BuildSuffix == <<"_","b","u","i","l","d","-">>

InfoLine(path, fallback) == <<"info", path, fallback>>

\* Lines 91-101: the file at path is left alone and a fallback directory is
\* made beside it and announced.
ensure_fallback(fsys, path, ts, env) ==
    LET base == os_path_basename(path)
        dn == os_path_dirname(path)
        parent == IF dn = <<>> THEN <<".">> ELSE dn
        fallback == os_path_join(parent, base \o BuildSuffix \o ts)
    IN  IF fallback \in DOMAIN fsys
        THEN IF fsys[fallback] = Dir
             THEN [raised |-> FALSE, fs |-> fsys, dir |-> fallback,
                   printed |-> <<InfoLine(path, fallback)>>]
             ELSE [raised |-> TRUE, fs |-> fsys, dir |-> <<>>, printed |-> <<>>]
        ELSE IF env = "ok"
             THEN [raised |-> FALSE, fs |-> FsPut(fsys, fallback, Dir), dir |-> fallback,
                   printed |-> <<InfoLine(path, fallback)>>]
             ELSE [raised |-> TRUE, fs |-> fsys, dir |-> <<>>, printed |-> <<>>]

\* Lines 85-89: the file at path is removed and a directory made in its place.
ensure_forced(fsys, path, env) ==
    IF env = "ok"
    THEN [raised |-> FALSE, fs |-> FsPut(FsRemove(fsys, path), path, Dir), dir |-> path,
          printed |-> <<>>]
    ELSE IF env = "late_error"
    THEN [raised |-> TRUE, fs |-> FsRemove(fsys, path), dir |-> <<>>, printed |-> <<>>]
    ELSE [raised |-> TRUE, fs |-> fsys, dir |-> <<>>, printed |-> <<>>]

\* _ensure_writable_dir taking the force branch whatever the flag.
ensure_writable_dir_forcing(fsys, path, force, ts, env) ==
    IF path \notin DOMAIN fsys
    THEN IF env = "ok"
         THEN [raised |-> FALSE, fs |-> FsPut(fsys, path, Dir), dir |-> path, printed |-> <<>>]
         ELSE [raised |-> TRUE, fs |-> fsys, dir |-> <<>>, printed |-> <<>>]
    ELSE IF fsys[path] = Dir
    THEN [raised |-> FALSE, fs |-> fsys, dir |-> path, printed |-> <<>>]
    ELSE ensure_forced(fsys, path, env)

\* _ensure_writable_dir(path, force): the file system after the call, the
\* directory returned and what was printed, or an exception.  ts is what
\* time.strftime returns; env tells whether the operating system carries out
\* the call that changes the file system ("ok"), refuses it ("error"), or
\* removes the file and then refuses to make the directory ("late_error").
_ensure_writable_dir(fsys, path, force, ts, env) ==
    IF path \notin DOMAIN fsys
    THEN IF env = "ok"
         THEN [raised |-> FALSE, fs |-> FsPut(fsys, path, Dir), dir |-> path, printed |-> <<>>]
         ELSE [raised |-> TRUE, fs |-> fsys, dir |-> <<>>, printed |-> <<>>]
    ELSE IF fsys[path] = Dir
    THEN [raised |-> FALSE, fs |-> fsys, dir |-> path, printed |-> <<>>]
    ELSE IF force
    THEN ensure_forced(fsys, path, env)
    ELSE ensure_fallback(fsys, path, ts, env)

FilePrefix == <<"c","o","o","k","i","e","_","d","a","t","a","_">>
DotJson == <<".","j","s","o","n">>
DotMinJson == <<".","m","i","n",".","j","s","o","n">>

\* Lines 133 and 138.
pretty_path(outdir, locale) == os_path_join(outdir, FilePrefix \o locale \o DotJson)
min_path(minout, locale) == os_path_join(minout, FilePrefix \o locale \o DotMinJson)

\* with open(path, "w") as f: json.dump(...): the file system afterwards, or
\* an exception; the open fails on a directory or when the system refuses it
\* ("error"), and a dump that fails ("late_error") leaves what it had written.
write_file(fsys, path, text, env) ==
    IF (path \in DOMAIN fsys /\ fsys[path] = Dir) \/ env = "error"
    THEN [raised |-> TRUE, fs |-> fsys]
    ELSE IF env = "late_error"
    THEN [raised |-> TRUE, fs |-> FsPut(fsys, path, File(PartialText))]
    ELSE [raised |-> FALSE, fs |-> FsPut(fsys, path, File(text))]

---------------------------------------------------------------------------
(* Spec: main() *)

PathTranslations == <<"t">>
PathInput == <<"i">>
OutputDirs == {<<"o">>, <<"/", "m">>}
Timestamps == {<<"1">>, <<"2">>}
Outcomes == {"ok", "error", "late_error"}

LocaleEn == <<"e","n">>
LocaleDe == <<"d","e">>
LocaleEnMin == <<"e","n",".","m","i","n">>
LocalePool == {LocaleEn, LocaleDe, LocaleEnMin}

DriverMaps == {<<>>, (<<"a">> :> XX)}

DriverDocs ==
    { DictTree(<< <<FieldLifespan, Str(<<"7", " ", "a">>)>> >>),
      ListTree(<<Str(<<"a">>), Num(7)>>) }

\* The Translation Tables: up to MaxLocales locales, each once, in file order.
Tables ==
    UNION {{tb \in [1..n -> LocalePool \X DriverMaps] :
                \A i, j \in 1..n : tb[i][1] = tb[j][1] => i = j} : n \in 0..MaxLocales}

\* What the translations file and the input file may hold.
TranslationFiles ==
    {<<>>, File(OtherText), File(JsonText(ListTree(<<>>)))}
        \cup {File(JsonText(<<"table", tb>>)) : tb \in Tables}
InputFiles == {<<>>, File(OtherText)} \cup {File(JsonText(t)) : t \in DriverDocs}
OutputEntries == {<<>>, Dir, File(OtherText)}

\* A file system from a list of <<path, entry>> pairs; <<>> is no entry.
RECURSIVE FsOf(_)
FsOf(pairs) ==
    IF pairs = <<>> THEN <<>>
    ELSE IF Head(pairs)[2] = <<>> THEN FsOf(Tail(pairs))
    ELSE FsPut(FsOf(Tail(pairs)), Head(pairs)[1], Head(pairs)[2])

IsTable(v) == Kind(v) = "table"
NLocales == IF IsTable(translations) THEN Len(Val(translations)) ELSE 0
Locale(i) == Val(translations)[i][1]
LocaleMap(i) == Val(translations)[i][2]

Init ==
    /\ pc = "load_translations"
    /\ s = <<>> /\ tmap = <<>> /\ result = NoResult
    /\ heap = <<>> /\ data = NoResult /\ outs = <<>> /\ snaps = <<>>
    /\ translate_keys \in BOOLEAN
    /\ \E od \in OutputDirs, md \in OutputDirs, f \in BOOLEAN :
          args = [translations |-> PathTranslations, input |-> PathInput,
                  outdir |-> od, minout |-> md, force |-> f]
    /\ \E tf \in TranslationFiles, inf \in InputFiles, e1 \in OutputEntries, e2 \in OutputEntries :
          fs = FsOf(<< <<PathTranslations, tf>>, <<PathInput, inf>>,
                       <<<<"o">>, e1>>, <<<<"/", "m">>, e2>> >>)
    /\ translations = NoResult
    /\ dirs = <<>>
    /\ idx = 0 /\ count = 0 /\ stdout = <<>>
    /\ hist = [fs0 |-> fs, failed |-> "none", writes |-> <<>>, passes |-> 0]

\* StepAfter with the output directories set up before the source is loaded.
StepAfterDirsFirst(p) ==
    CASE p = "load_translations" -> "ensure_outdir"
      [] p = "ensure_outdir" -> "ensure_minout"
      [] p = "ensure_minout" -> "load_data"
      [] p = "load_data" -> "loop"

\* The statements of main() from line 121 on, in order.
StepAfter(p) ==
    CASE p = "load_translations" -> "load_data"
      [] p = "load_data" -> "ensure_outdir"
      [] p = "ensure_outdir" -> "ensure_minout"
      [] p = "ensure_minout" -> "loop"

\* An exception nobody catches ends the run.
Crash(stage) ==
    /\ pc' = "crashed"
    /\ hist' = [hist EXCEPT !.failed = stage]

HarnessUnchanged == UNCHANGED <<s, tmap, translate_keys, outs, snaps, args>>

\* Line 121.
LoadTranslations ==
    /\ pc = "load_translations"
    /\ LET r == load_json(fs, args.translations)
       IN  IF r.raised
           THEN Crash("load_translations") /\ UNCHANGED translations
           ELSE /\ translations' = r.value
                /\ pc' = StepAfter("load_translations")
                /\ UNCHANGED hist
    /\ UNCHANGED <<result, heap, data, fs, dirs, idx, count, stdout>>
    /\ HarnessUnchanged

\* Line 122.
LoadData ==
    /\ pc = "load_data"
    /\ LET r == load_json(fs, args.input)
       IN  IF r.raised
           THEN Crash("load_data") /\ UNCHANGED <<heap, data>>
           ELSE /\ LET o == Alloc(heap, r.value)
                   IN  heap' = o.heap /\ data' = o.val
                /\ pc' = StepAfter("load_data")
                /\ UNCHANGED hist
    /\ UNCHANGED <<result, translations, fs, dirs, idx, count, stdout>>
    /\ HarnessUnchanged

EnsureDir(stage, name, path) ==
    /\ pc = stage
    /\ \E ts \in Timestamps, env \in Outcomes :
          LET r == _ensure_writable_dir(fs, path, args.force, ts, env)
          IN  /\ fs' = r.fs
              /\ stdout' = stdout \o r.printed
              /\ IF r.raised
                 THEN Crash(stage) /\ UNCHANGED dirs
                 ELSE /\ dirs' = (name :> r.dir) @@ dirs
                      /\ pc' = StepAfter(stage)
                      /\ UNCHANGED hist
    /\ UNCHANGED <<result, heap, data, translations, idx, count>>
    /\ HarnessUnchanged

\* Line 125.
EnsureOutdir == EnsureDir("ensure_outdir", "outdir", args.outdir)

\* Line 126.
EnsureMinout == EnsureDir("ensure_minout", "minout", args.minout)

\* Line 129 on a Translation Table that is no JSON object: .items() raises.
LoopRaises ==
    /\ pc = "loop"
    /\ ~IsTable(translations)
    /\ Crash("loop")
    /\ UNCHANGED <<result, heap, data, translations, fs, dirs, idx, count, stdout>>
    /\ HarnessUnchanged

\* Lines 129-130: the next locale is translated from a deep copy of data.
Translate ==
    /\ pc = "loop"
    /\ IsTable(translations)
    /\ idx < NLocales
    /\ LET c == deepcopy(heap, data)
           r == translate_structure(c.heap, c.val, LocaleMap(idx + 1), translate_keys)
       IN  heap' = r.heap /\ result' = r.val
    /\ pc' = "write_pretty"
    /\ hist' = [hist EXCEPT !.passes = @ + 1]
    /\ UNCHANGED <<data, translations, fs, dirs, idx, count, stdout>>
    /\ HarnessUnchanged

\* Lines 133-135.
WritePretty ==
    /\ pc = "write_pretty"
    /\ \E env \in Outcomes :
          LET path == pretty_path(dirs["outdir"], Locale(idx + 1))
              r == write_file(fs, path, PrettyText(Deref(heap, result)), env)
          IN  /\ fs' = r.fs
              /\ IF r.raised
                 THEN Crash("write_pretty")
                 ELSE /\ pc' = "write_min"
                      /\ hist' = [hist EXCEPT !.writes =
                                      Append(@, <<Locale(idx + 1), "pretty", path>>)]
    /\ UNCHANGED <<result, heap, data, translations, dirs, idx, count, stdout>>
    /\ HarnessUnchanged

\* Lines 138-142.
WriteMin ==
    /\ pc = "write_min"
    /\ \E env \in Outcomes :
          LET path == min_path(dirs["minout"], Locale(idx + 1))
              r == write_file(fs, path, MinText(Deref(heap, result)), env)
          IN  /\ fs' = r.fs
              /\ IF r.raised
                 THEN Crash("write_min") /\ UNCHANGED <<idx, count>>
                 ELSE /\ pc' = "loop"
                      /\ count' = count + 1
                      /\ idx' = idx + 1
                      /\ hist' = [hist EXCEPT !.writes =
                                      Append(@, <<Locale(idx + 1), "min", path>>)]
    /\ UNCHANGED <<result, heap, data, translations, dirs, stdout>>
    /\ HarnessUnchanged

\* Lines 144-145.
Summary ==
    /\ pc = "loop"
    /\ IsTable(translations)
    /\ idx = NLocales
    /\ stdout' = stdout \o << <<"done_pretty", count, dirs["outdir"]>>,
                              <<"done_min", count, dirs["minout"]>> >>
    /\ pc' = "done"
    /\ UNCHANGED <<result, heap, data, translations, fs, dirs, idx, count, hist>>
    /\ HarnessUnchanged

Next ==
    \/ LoadTranslations
    \/ LoadData
    \/ EnsureOutdir
    \/ EnsureMinout
    \/ LoopRaises
    \/ Translate
    \/ WritePretty
    \/ WriteMin
    \/ Summary

Spec == Init /\ [][Next]_vars

Ended == pc \in {"done", "crashed"}

SummaryPrinted == \E i \in 1..Len(stdout) : stdout[i][1] = "done_pretty"

\* The locales whose pretty and minified files were both written.
WrittenLocales ==
    {l \in LocalePool :
        /\ \E i \in 1..Len(hist.writes) : hist.writes[i][1] = l /\ hist.writes[i][2] = "pretty"
        /\ \E i \in 1..Len(hist.writes) : hist.writes[i][1] = l /\ hist.writes[i][2] = "min"}

\* C5: when writing one locale's files fails, the loop still goes on to every
\* remaining locale, and the run ends with the summary, whose count is the
\* number of locales written.
C5_PartialFailureTolerance ==
    (Ended /\ hist.failed \in {"none", "write_pretty", "write_min"})
    => /\ hist.passes = NLocales
       /\ SummaryPrinted
       /\ count = Cardinality(WrittenLocales)

\* The destinations given on the command line that were files when the run began.
Collided(name) ==
    args[name] \in DOMAIN hist.fs0 /\ IsFile(hist.fs0[args[name]])

Untouched(name) ==
    args[name] \in DOMAIN fs /\ fs[args[name]] = hist.fs0[args[name]]

Announced(name) ==
    \E i \in 1..Len(stdout) : stdout[i] = <<"info", args[name], dirs[name]>>

Mentioned(name) ==
    \E i \in 1..Len(stdout) : stdout[i][1] = "info" /\ stdout[i][2] = args[name]

\* C6 as stated: a destination that exists and is no directory is never
\* removed or overwritten, whatever the force flag; the run fails or uses a
\* fallback directory, and says so.
C6_NeverRemovedAlwaysReported ==
    \A name \in {"outdir", "minout"} :
        Collided(name)
        => /\ Untouched(name)
           /\ name \in DOMAIN dirs => (dirs[name] # args[name] /\ Announced(name))

\* C6 as amended: without --force the existing file is left untouched and the
\* run either fails or uses the fallback directory and prints the [info] line
\* naming both; with --force the file is replaced by a directory at the same
\* path and nothing is printed about it.
C6_CollisionByForceFlag ==
    \A name \in {"outdir", "minout"} :
        Collided(name)
        => /\ ~args.force
              => /\ Untouched(name)
                 /\ name \in DOMAIN dirs => (dirs[name] # args[name] /\ Announced(name))
           /\ (args.force /\ name \in DOMAIN dirs)
              => /\ fs[args[name]] = Dir
                 /\ dirs[name] = args[name]
                 /\ ~Mentioned(name)

C6_Witness ==
    /\ pc = "done"
    /\ ~args.force
    /\ Collided("outdir")
    /\ Untouched("outdir")
    /\ Announced("outdir")
    /\ count = 2
    /\ \A i \in 1..Len(hist.writes) : hist.writes[i][3] \in DOMAIN fs

\* C7: a run in which nothing fails translates each of the N locales once and
\* writes N pretty and N minified files, no two of them the same file, and
\* reports N.
C7_BatchCompleteness ==
    pc = "done"
    => /\ hist.passes = NLocales
       /\ count = NLocales
       /\ Len(hist.writes) = 2 * NLocales
       /\ \A i, j \in 1..Len(hist.writes) :
             hist.writes[i][3] = hist.writes[j][3] => i = j

\* C8: nothing is created, removed, written or printed before both the
\* Translation Table and the source document are loaded; a run that fails to
\* load either ends with the file system as it found it.
C8_LoadsPrecedeSideEffects ==
    /\ (fs # hist.fs0 \/ dirs # <<>> \/ stdout # <<>>)
       => (translations # NoResult /\ data # NoResult)
    /\ hist.failed \in {"load_translations", "load_data"}
       => (pc = "crashed" /\ fs = hist.fs0 /\ hist.writes = <<>>)

C8_Witness ==
    /\ pc = "crashed"
    /\ hist.failed = "load_data"
    /\ translations # NoResult
    /\ args.outdir \notin DOMAIN fs
    /\ args.force
    /\ args.minout \in DOMAIN fs
    /\ IsFile(fs[args.minout])
    /\ fs = hist.fs0

===========================================================================
